---------------------------- MODULE Spec2Model ----------------------------
(***************************************************************************)
(* Model of PyLearnChat's sandboxed code execution                         *)
(* (src/utils/code_executor.py, class CodeExecutor), of the abort flag     *)
(* and request id of its streaming client (src/models/llm_client.py,       *)
(* class LLMClient) and of the task lock of its GUI                        *)
(* (src/gui/gradio_app.py, class PythonEducationSystemGradio).  The parts  *)
(* share no state: Spec and LiveSpec run the executor, AbortSpec, SeqSpec  *)
(* and OptIdSpec run the client, GuiSpec runs the GUI's handlers.          *)
(*                                                                         *)
(* Texts are sequences of strings.  A submitted source text is a sequence  *)
(* of one-character strings, so that Python's substring test `func in      *)
(* code` is a real search.  Captured output and messages are sequences of  *)
(* pieces; "" never occurs as a piece, so the empty text is <<>>.          *)
(*                                                                         *)
(* One execute() call runs in each element of Calls; calls may overlap or  *)
(* follow one another.  Queue and Process objects live in two heaps        *)
(* (queues, procs) and a call refers to them through its local variables   *)
(* result_queue and process, as the Python code does.                      *)
(***************************************************************************)
EXTENDS Naturals, Sequences, FiniteSets, TLC

\* Number of execute() calls in a behaviour (concurrent or sequential).
MaxCalls == 2

Calls == 1..MaxCalls

\* CodeExecutor.__init__: timeout: int = 5
timeout == 5

\* CodeExecutor.__init__: the default self.disallowed_functions, in order.
disallowed_functions ==
    << <<"e","v","a","l">>,
       <<"e","x","e","c">>,
       <<"_","_","i","m","p","o","r","t","_","_">>,
       <<"o","p","e","n">>,
       <<"g","e","t","a","t","t","r">>,
       <<"s","e","t","a","t","t","r">>,
       <<"d","e","l","a","t","t","r">>,
       <<"c","o","m","p","i","l","e">>,
       <<"g","l","o","b","a","l","s">>,
       <<"l","o","c","a","l","s">>,
       <<"v","a","r","s">>,
       <<"s","y","s","t","e","m">>,
       <<"p","o","p","e","n">>,
       <<"s","p","a","w","n">>,
       <<"f","o","r","k">>,
       <<"k","i","l","l">> >>

-----------------------------------------------------------------------------
(* Submissions: concrete Python programs and what CPython does with them   *)
(* under exec(code, safe_globals).                                         *)
(*   kind   "return": exec returns;  "raise": exec raises an Exception;    *)
(*          "loop": exec never returns;  "die": the operating system kills *)
(*          the worker while exec runs (memory_limit is never enforced)    *)
(*   prints the arguments of the print() calls executed, in order          *)
(*   err    what reaches sys.stderr (compiler warnings)                    *)
(*   exc    str(e) of the exception raised                                 *)
(*   big    the pickled result exceeds the capacity of the queue's pipe    *)

\* print('hello')
SrcHello == <<"p","r","i","n","t","(","'","h","e","l","l","o","'",")">>
\* assert 0                  AssertionError(): str(e) is empty
SrcAssert == <<"a","s","s","e","r","t"," ","0">>
\* print(1);1/0              prints, then ZeroDivisionError
SrcPrintRaise == <<"p","r","i","n","t","(","1",")",";","1","/","0">>
\* while 1:1
SrcLoop == <<"w","h","i","l","e"," ","1",":","1">>
\* print('x'*99999)          a result larger than the pipe buffer
SrcBig == <<"p","r","i","n","t","(","'","x","'","*","9","9","9","9","9",")">>
\* print(1 is 1)             compiles with a SyntaxWarning on stderr
SrcWarn == <<"p","r","i","n","t","(","1"," ","i","s"," ","1",")">>
\* a=[0]\nwhile 1:a+=a       exhausts memory; killed by the OS
SrcOom == <<"a","=","[","0","]","\n","w","h","i","l","e"," ","1",":","a","+","=","a">>
\* # eval                    denylisted token inside a comment
SrcComment == <<"#"," ","e","v","a","l">>
\* print('kill');popen       kill in a string literal, popen, and open within popen
SrcTwo == <<"p","r","i","n","t","(","'","k","i","l","l","'",")",";","p","o","p","e","n">>

Run(kind, prints, err, exc, big) ==
    [kind |-> kind, prints |-> prints, err |-> err, exc |-> exc, big |-> big]

Submissions ==
    { [src |-> SrcHello,      run |-> Run("return", <<"hello">>, <<>>, <<>>, FALSE)],
      [src |-> SrcAssert,     run |-> Run("raise",  <<>>, <<>>, <<>>, FALSE)],
      [src |-> SrcPrintRaise, run |-> Run("raise",  <<"1">>, <<>>, <<"division by zero">>, FALSE)],
      [src |-> SrcLoop,       run |-> Run("loop",   <<>>, <<>>, <<>>, FALSE)],
      [src |-> SrcBig,        run |-> Run("return", <<"xxx...(99999)">>, <<>>, <<>>, TRUE)],
      [src |-> SrcWarn,       run |-> Run("return", <<"True">>,
                                          <<"<string>:1: SyntaxWarning", "\n">>, <<>>, FALSE)],
      [src |-> SrcOom,        run |-> Run("die",    <<>>, <<>>, <<>>, FALSE)],
      [src |-> SrcComment,    run |-> Run("return", <<>>, <<>>, <<>>, FALSE)],
      [src |-> SrcTwo,        run |-> Run("return", <<"kill">>, <<>>, <<>>, FALSE)] }

\* exec(code, safe_globals): the behaviour of the submitted text.
Exec(code) == (CHOOSE s \in Submissions : s.src = code).run

NoCode == <<>>

-----------------------------------------------------------------------------
(* Pure helpers of CodeExecutor. *)

\* A test that finds func only at the very start of code.
StartsWith(func, code) ==
    Len(func) <= Len(code) /\ SubSeq(code, 1, Len(func)) = func

\* Python's `func in code` on strings: func occurs as a substring of code.
In(func, code) ==
    \E i \in 1..(Len(code) + 1) :
        /\ i + Len(func) - 1 <= Len(code)
        /\ SubSeq(code, i, i + Len(func) - 1) = func

\* The literal prefixes of the two f-strings (lines 45 and 108), in English.
DisallowedPrefix == <<"forbidden function: ">>
UnsafePrefix == <<"unsafe code: ">>

\* The loop of _check_safety from entry k of disallowed_functions on.
RECURSIVE check_from(_, _)
check_from(k, code) ==
    IF k > Len(disallowed_functions)
    THEN <<TRUE, <<>> >>
    ELSE IF In(disallowed_functions[k], code)
         THEN <<FALSE, DisallowedPrefix \o disallowed_functions[k]>>
         ELSE check_from(k + 1, code)

\* A check that reports the last matching entry of the list.
check_last(code) ==
    LET ks == {k \in 1..Len(disallowed_functions) : In(disallowed_functions[k], code)}
    IN  IF ks = {}
        THEN <<TRUE, <<>> >>
        ELSE <<FALSE, DisallowedPrefix \o
                      disallowed_functions[CHOOSE k \in ks : \A j \in ks : j <= k]>>

\* CodeExecutor._check_safety(code) -> (is_safe, message)
check_safety(code) == check_from(1, code)

\* A result dict.  has_traceback: the dict carries the "traceback" key.
Outcome(output, error, tb) ==
    [output |-> output, error |-> error, has_traceback |-> tb]

\* print(x) under redirect_stdout: the argument and a newline.
py_print(buffer, x) == buffer \o <<x, "\n">>

RECURSIVE print_all(_, _)
print_all(buffer, xs) ==
    IF xs = <<>> THEN buffer ELSE print_all(py_print(buffer, Head(xs)), Tail(xs))

\* The dict _execute_code_in_sandbox puts on the queue when exec returns
\* or raises (lines 62-96).
SandboxResult(code) ==
    LET r == Exec(code)
        stdout_buffer == print_all(<<>>, r.prints)
    IN  IF r.kind = "raise"
        THEN Outcome(<<>>, r.exc, TRUE)
        ELSE Outcome(stdout_buffer, r.err, FALSE)

\* execute, line 106: the dict returned for an unsafe submission.
UnsafeOutcome(message) == Outcome(<<>>, UnsafePrefix \o message, FALSE)

\* execute, line 129: the dict returned after the worker was terminated.
TimeoutOutcome == Outcome(<<>>, <<"execution timed out (", ToString(timeout), " seconds)">>, FALSE)

\* execute, line 138: the dict used when the queue is empty.
NoResultOutcome == Outcome(<<>>, <<"no execution result obtained">>, FALSE)

\* execute, line 146: the dict of the except handler; str(e) of the error
\* a library call raised in the parent.
ParentErrorText == <<"[Errno 11] Resource temporarily unavailable">>
ExceptOutcome == Outcome(<<>>, ParentErrorText, FALSE)

NoOutcome == Outcome(<<"<none>">>, <<"<none>">>, FALSE)

-----------------------------------------------------------------------------
(* State. *)

VARIABLES
    pc,            \* per call: the statement of execute() it is at
    code,          \* per call: the argument of execute()
    result_queue,  \* per call: local variable, a queue id (0: unbound)
    process,       \* per call: local variable, a process id (0: unbound)
    ret,           \* per call: the dict execute() returned
    via,           \* per call: which return statement produced ret
    got,           \* per call: the worker whose message result_queue.get() returned
    expired,       \* per call: join(self.timeout) has timed out
    queues,        \* heap of multiprocessing.Queue objects
    procs,         \* heap of multiprocessing.Process objects
    abort_flag,    \* LLMClient.abort_flag
    request_id,    \* LLMClient.request_id
    chat_history,  \* LLMClient.chat_history: the sessions whose reply was appended
    abort_lock,    \* the thread holding LLMClient.abort_lock
    request_lock,  \* the thread holding LLMClient.request_lock
    history_lock,  \* the thread holding LLMClient.history_lock
    gen,           \* per streaming session: the frame of its generate() call
    aborter,       \* the thread calling set_abort_flag(True, id)
    cleaner,       \* the thread calling cleanup()
    flag_by,       \* history: the request_id arguments that set abort_flag
    held_always,   \* history: the locks held at every access of the registry
    task_lock,     \* PythonEducationSystemGradio.task_lock: the request holding it
    current_task,  \* PythonEducationSystemGradio.current_task
    task_start_time, \* PythonEducationSystemGradio.task_start_time
    gui            \* per GUI request: the frame of its handler

exec_vars == <<pc, code, result_queue, process, ret, via, got, expired, queues, procs>>

llm_vars ==
    <<abort_flag, request_id, chat_history, abort_lock, request_lock, history_lock,
      gen, aborter, cleaner, flag_by, held_always>>

gui_vars == <<task_lock, current_task, task_start_time, gui>>

vars == <<exec_vars, llm_vars, gui_vars>>

Ids == 1..MaxCalls

\* call records history: the call that constructed the queue.
FreeQueue == [allocated |-> FALSE, items |-> <<>>, call |-> 0]

\* st: "free" (no such object), "initial" (constructed, not started),
\*     "running" (in exec), "flushing" (put() done, the queue's feeder thread
\*     is writing to the pipe; the process exits once it has), "terminating"
\*     (SIGTERM sent), "zombie" (exited, not waited for), "reaped".
\* call and put_in_time record history: the creating call, and whether put()
\* ran before that call's join(self.timeout) timed out.
FreeProc ==
    [st |-> "free", code |-> NoCode, queue |-> 0, buf |-> <<>>,
     call |-> 0, put_in_time |-> FALSE]

\* The streaming sessions: session s is one call generate(prompt, stream=True,
\* request_id=RequestId(s)), each on a thread of its own.
MaxSessions == 2
Sessions == 1..MaxSessions

\* The length of the upstream stream self.llm.stream(messages) is at most MaxChunks.
MaxChunks == 2

\* Python's None, the request ids of the sessions, and an id no session has.
None == <<>>
RequestId(s) == <<"r", s>>
UnknownId == <<"unknown-id">>

\* Threads, as the holders of a lock.
NoThread == <<>>
Gen(s) == <<"generate", s>>
AbortThread == <<"set_abort_flag">>
CleanupThread == <<"cleanup">>

LockNames == {"abort_lock", "request_lock"}

\* The frame of generate().  at: the statement the generator is at; left: the
\* chunks upstream has still to deliver; full_response: some content was
\* accumulated; outcome: "none", "Completed" (for-else), "Errored" (except),
\* "Aborted" (break).  History, kept until generate() is left: abort_ok, the
\* phase of the session when set_abort_flag(True, RequestId(s)) first
\* returned True ("no", "begin": between its set_request_id and its
\* set_abort_flag(False), "loop": in the for loop); after, the content units
\* yielded after that.  request_id: the argument request_id of the call while
\* it runs (None: called without one).
NewGen ==
    [at |-> "idle", left |-> 0, full_response |-> FALSE, outcome |-> "none",
     abort_ok |-> "no", after |-> 0, request_id |-> None]

\* The requests that reach the GUI's handlers, each on a thread of its own.
MaxTasks == 3
Tasks == 1..MaxTasks

\* No request holds task_lock.
Unlocked == 0

\* The task names the two handlers pass to acquire_task_lock (lines 112 and
\* 232), in English.
ChatTask == <<"chat">>
CodeTask == <<"code execution">>

\* time.time() at the acquisition by request t.
Time(t) == <<"time", t>>

\* The frame of a handler.  at: the statement it is at; task_name: the
\* argument of acquire_task_lock; message: the text of a rejection, as the
\* task it names; exit: how the body of the handler was left.
NewRequest == [at |-> "idle", task_name |-> None, message |-> None, exit |-> "none"]

\* arg and result: the argument and the return value of the last call.
IdleAborter == [at |-> "idle", arg |-> None, result |-> "none"]

LoopPcs == {"wait_chunk", "poll", "emit", "yielded"}


Init ==
    /\ pc = [c \in Calls |-> "idle"]
    /\ code = [c \in Calls |-> NoCode]
    /\ result_queue = [c \in Calls |-> 0]
    /\ process = [c \in Calls |-> 0]
    /\ ret = [c \in Calls |-> NoOutcome]
    /\ via = [c \in Calls |-> "none"]
    /\ got = [c \in Calls |-> 0]
    /\ expired = [c \in Calls |-> FALSE]
    /\ queues = [q \in Ids |-> FreeQueue]
    /\ procs = [p \in Ids |-> FreeProc]
    /\ abort_flag = FALSE
    /\ request_id = None
    /\ chat_history = <<>>
    /\ abort_lock = NoThread
    /\ request_lock = NoThread
    /\ history_lock = NoThread
    /\ gen = [s \in Sessions |-> NewGen]
    /\ aborter = IdleAborter
    /\ cleaner = "idle"
    /\ flag_by = {}
    /\ held_always = LockNames
    /\ task_lock = Unlocked
    /\ current_task = None
    /\ task_start_time = None
    /\ gui = [t \in Tasks |-> NewRequest]

-----------------------------------------------------------------------------
(* Library behaviour the code relies on. *)

\* multiprocessing.Queue(): a new object, distinct from every existing one.
NewQueueId(qs) == CHOOSE q \in Ids : ~qs[q].allocated /\ \A r \in Ids : ~qs[r].allocated => q <= r

\* A constructor that hands out an object already in use.
ReusedProcessId(ps) ==
    IF \E p \in Ids : ps[p].st # "free"
    THEN CHOOSE p \in Ids : ps[p].st # "free"
    ELSE 1

\* multiprocessing.Process(...): a new object, distinct from every existing one.
NewProcessId(ps) == CHOOSE p \in Ids : ps[p].st = "free" /\ \A r \in Ids : ps[r].st = "free" => p <= r

\* A liveness test that never sees a running process.
NeverAlive(p) == FALSE

\* process.is_alive(), after its poll of the child.
is_alive(p) == procs[p].st \in {"running", "flushing", "terminating"}

\* A join that returns without waiting.
JoinNoWait(p) == TRUE

\* process.join() can return: the child has exited.
JoinReady(p) == procs[p].st \in {"zombie", "reaped"}

\* The channel every call would read if the queue were shared.
FirstQueue(c) == 1

\* The queue a call reads: its own local variable result_queue (lines 135-136).
OwnQueue(c) == result_queue[c]

\* The feeder thread can write the whole pickled result into the pipe while
\* nobody reads it: only if it fits the pipe's buffer.
FitsPipe(msg) == ~msg.big

\* waitpid on an exited child.
Reap(ps, p) == IF ps[p].st = "zombie" THEN [ps EXCEPT ![p].st = "reaped"] ELSE ps

-----------------------------------------------------------------------------
(* execute(), the parent side. *)

\* A caller invokes execute(s.src).  Calls are numbered in invocation order.
Call(c, s) ==
    /\ pc[c] = "idle"
    /\ c > 1 => pc[c - 1] # "idle"
    /\ code' = [code EXCEPT ![c] = s.src]
    /\ pc' = [pc EXCEPT ![c] = "check_safety"]
    /\ UNCHANGED <<result_queue, process, ret, via, got, expired, queues, procs>>
    /\ UNCHANGED <<llm_vars, gui_vars>>

\* Lines 104-109.
CheckSafety(c) ==
    /\ pc[c] = "check_safety"
    /\ LET r == check_safety(code[c])
           is_safe == r[1]
           message == r[2]
       IN  IF ~is_safe
           THEN /\ ret' = [ret EXCEPT ![c] = UnsafeOutcome(message)]
                /\ via' = [via EXCEPT ![c] = "unsafe"]
                /\ pc' = [pc EXCEPT ![c] = "returned"]
           ELSE /\ pc' = [pc EXCEPT ![c] = "new_worker"]
                /\ UNCHANGED <<ret, via>>
    /\ UNCHANGED <<code, result_queue, process, got, expired, queues, procs>>
    /\ UNCHANGED <<llm_vars, gui_vars>>

\* Lines 112-116: the Queue and the Process object are constructed.
NewWorker(c) ==
    /\ pc[c] = "new_worker"
    /\ LET q == NewQueueId(queues)
           p == NewProcessId(procs)
       IN  /\ queues' = [queues EXCEPT ![q] = [allocated |-> TRUE, items |-> <<>>, call |-> c]]
           /\ procs' = [procs EXCEPT ![p] =
                           [st |-> "initial", code |-> code[c], queue |-> q,
                            buf |-> <<>>, call |-> c, put_in_time |-> FALSE]]
           /\ result_queue' = [result_queue EXCEPT ![c] = q]
           /\ process' = [process EXCEPT ![c] = p]
    /\ pc' = [pc EXCEPT ![c] = "start"]
    /\ UNCHANGED <<code, ret, via, got, expired>>
    /\ UNCHANGED <<llm_vars, gui_vars>>

\* Line 112, outside the try block: multiprocessing.Queue() raises (OSError
\* when no file descriptor is left); the exception leaves execute().
NewQueueRaises(c) ==
    /\ pc[c] = "new_worker"
    /\ pc' = [pc EXCEPT ![c] = "raised"]
    /\ UNCHANGED <<code, result_queue, process, ret, via, got, expired, queues, procs>>
    /\ UNCHANGED <<llm_vars, gui_vars>>

\* Line 120: process.start().
Start(c) ==
    /\ pc[c] = "start"
    /\ procs' = [procs EXCEPT ![process[c]].st = "running"]
    /\ pc' = [pc EXCEPT ![c] = "join"]
    /\ UNCHANGED <<code, result_queue, process, ret, via, got, expired, queues>>
    /\ UNCHANGED <<llm_vars, gui_vars>>

\* Line 123: process.join(self.timeout) returns because the child exited.
JoinExited(c) ==
    /\ pc[c] = "join"
    /\ JoinReady(process[c])
    /\ procs' = Reap(procs, process[c])
    /\ pc' = [pc EXCEPT ![c] = "is_alive"]
    /\ UNCHANGED <<code, result_queue, process, ret, via, got, expired, queues>>
    /\ UNCHANGED <<llm_vars, gui_vars>>

\* Line 123: process.join(self.timeout) returns because the timeout elapsed.
JoinTimeout(c) ==
    /\ pc[c] = "join"
    /\ procs[process[c]].st \notin {"zombie", "reaped"}
    /\ expired' = [expired EXCEPT ![c] = TRUE]
    /\ pc' = [pc EXCEPT ![c] = "is_alive"]
    /\ UNCHANGED <<code, result_queue, process, ret, via, got, queues, procs>>
    /\ UNCHANGED <<llm_vars, gui_vars>>

\* Line 126: process.is_alive() polls the child (reaping it if it exited).
IsAlive(c) ==
    /\ pc[c] = "is_alive"
    /\ procs' = Reap(procs, process[c])
    /\ pc' = [pc EXCEPT ![c] = IF is_alive(process[c]) THEN "terminate" ELSE "read_result"]
    /\ UNCHANGED <<code, result_queue, process, ret, via, got, expired, queues>>
    /\ UNCHANGED <<llm_vars, gui_vars>>

\* Line 127: process.terminate() sends SIGTERM to a child that has not been
\* waited for.
Terminate(c) ==
    /\ pc[c] = "terminate"
    /\ procs' = IF procs[process[c]].st \in {"running", "flushing"}
                THEN [procs EXCEPT ![process[c]].st = "terminating"]
                ELSE procs
    /\ pc' = [pc EXCEPT ![c] = "join_terminated"]
    /\ UNCHANGED <<code, result_queue, process, ret, via, got, expired, queues>>
    /\ UNCHANGED <<llm_vars, gui_vars>>

\* Lines 128-132: process.join() blocks until the child exited, then the
\* timeout dict is returned.
JoinTerminated(c) ==
    /\ pc[c] = "join_terminated"
    /\ JoinReady(process[c])
    /\ procs' = Reap(procs, process[c])
    /\ ret' = [ret EXCEPT ![c] = TimeoutOutcome]
    /\ via' = [via EXCEPT ![c] = "timeout"]
    /\ pc' = [pc EXCEPT ![c] = "returned"]
    /\ UNCHANGED <<code, result_queue, process, got, expired, queues>>
    /\ UNCHANGED <<llm_vars, gui_vars>>

\* A test that never finds the queue empty.
NeverEmpty(q) == FALSE

\* result_queue.empty() (line 135)
empty(q) == queues[q].items = <<>>

\* Lines 135-143: result_queue.empty(), then get() or the no-result dict.
\* get() blocks until the queue has a message.
ReadResult(c) ==
    /\ pc[c] = "read_result"
    /\ LET q == OwnQueue(c)
       IN  IF ~empty(q)
           THEN /\ queues[q].items # <<>>
                /\ ret' = [ret EXCEPT ![c] = Head(queues[q].items).result]
                /\ got' = [got EXCEPT ![c] = Head(queues[q].items).origin]
                /\ queues' = [queues EXCEPT ![q].items = Tail(@)]
                /\ via' = [via EXCEPT ![c] = "result"]
           ELSE /\ ret' = [ret EXCEPT ![c] = NoResultOutcome]
                /\ via' = [via EXCEPT ![c] = "noresult"]
                /\ UNCHANGED <<got, queues>>
    /\ pc' = [pc EXCEPT ![c] = "returned"]
    /\ UNCHANGED <<code, result_queue, process, expired, procs>>
    /\ UNCHANGED <<llm_vars, gui_vars>>

\* The statements inside the try block (lines 118-143).
TryPcs == {"start", "join", "is_alive", "terminate", "join_terminated", "read_result"}

\* Lines 145-149: a library call of the try block raises an Exception; the
\* handler returns its text.  Nothing else is done for the worker.
Except(c) ==
    /\ pc[c] \in TryPcs
    /\ ret' = [ret EXCEPT ![c] = ExceptOutcome]
    /\ via' = [via EXCEPT ![c] = "except"]
    /\ pc' = [pc EXCEPT ![c] = "returned"]
    /\ UNCHANGED <<code, result_queue, process, got, expired, queues, procs>>
    /\ UNCHANGED <<llm_vars, gui_vars>>

-----------------------------------------------------------------------------
(* _execute_code_in_sandbox(), the worker side. *)

\* A put at the end of the try block: skipped when exec raises.
PutInTry(kind, msg) == IF kind = "raise" THEN <<>> ELSE <<msg>>

\* finally: result_queue.put(result) (lines 97-99): what the worker hands to
\* its queue when exec has ended as kind, one message on either path.
PutInFinally(kind, msg) == <<msg>>

\* Lines 59-99: exec returns or raises, and the finally clause puts the
\* result dict on the queue it was given.
WorkerPut(p) ==
    /\ procs[p].st = "running"
    /\ Exec(procs[p].code).kind \in {"return", "raise"}
    /\ procs' = [procs EXCEPT
                   ![p].st = "flushing",
                   ![p].buf = PutInFinally(Exec(procs[p].code).kind,
                                           [result |-> SandboxResult(procs[p].code),
                                            origin |-> p,
                                            big |-> Exec(procs[p].code).big]),
                   ![p].put_in_time = ~expired[procs[p].call]]
    /\ UNCHANGED <<pc, code, result_queue, process, ret, via, got, expired, queues>>
    /\ UNCHANGED <<llm_vars, gui_vars>>

\* The feeder thread has written the result to the pipe and the process
\* exits (a process that used a queue exits only after its feeder is done).
WorkerExit(p) ==
    /\ procs[p].st = "flushing"
    /\ FitsPipe(Head(procs[p].buf))
    /\ queues' = [queues EXCEPT ![procs[p].queue].items =
                      Append(@, [result |-> Head(procs[p].buf).result,
                                 origin |-> Head(procs[p].buf).origin])]
    /\ procs' = [procs EXCEPT ![p].st = "zombie", ![p].buf = <<>>]
    /\ UNCHANGED <<pc, code, result_queue, process, ret, via, got, expired>>
    /\ UNCHANGED <<llm_vars, gui_vars>>

\* The operating system kills a worker that exhausts memory, inside exec.
WorkerKilled(p) ==
    /\ procs[p].st = "running"
    /\ Exec(procs[p].code).kind = "die"
    /\ procs' = [procs EXCEPT ![p].st = "zombie"]
    /\ UNCHANGED <<pc, code, result_queue, process, ret, via, got, expired, queues>>
    /\ UNCHANGED <<llm_vars, gui_vars>>

\* SIGTERM takes effect: the worker dies, whatever it was doing.
WorkerTerminated(p) ==
    /\ procs[p].st = "terminating"
    /\ procs' = [procs EXCEPT ![p].st = "zombie", ![p].buf = <<>>]
    /\ UNCHANGED <<pc, code, result_queue, process, ret, via, got, expired, queues>>
    /\ UNCHANGED <<llm_vars, gui_vars>>

-----------------------------------------------------------------------------

Next ==
    \/ \E c \in Calls, s \in Submissions : Call(c, s)
    \/ \E c \in Calls : CheckSafety(c)
    \/ \E c \in Calls : NewWorker(c)
    \/ \E c \in Calls : NewQueueRaises(c)
    \/ \E c \in Calls : Start(c)
    \/ \E c \in Calls : JoinExited(c)
    \/ \E c \in Calls : JoinTimeout(c)
    \/ \E c \in Calls : IsAlive(c)
    \/ \E c \in Calls : Terminate(c)
    \/ \E c \in Calls : JoinTerminated(c)
    \/ \E c \in Calls : ReadResult(c)
    \/ \E c \in Calls : Except(c)
    \/ \E p \in Ids : WorkerPut(p)
    \/ \E p \in Ids : WorkerExit(p)
    \/ \E p \in Ids : WorkerKilled(p)
    \/ \E p \in Ids : WorkerTerminated(p)

Spec == Init /\ [][Next]_vars

\* The scheduler runs every thread and process that can take a step, and the
\* timer of join(self.timeout) fires.  Nothing obliges a caller to call, a
\* library call to raise, or an object constructor to fail.
ParentStep(c) ==
    \/ CheckSafety(c) \/ NewWorker(c) \/ Start(c) \/ JoinExited(c) \/ JoinTimeout(c)
    \/ IsAlive(c) \/ Terminate(c) \/ JoinTerminated(c) \/ ReadResult(c)

WorkerStep(p) ==
    WorkerPut(p) \/ WorkerExit(p) \/ WorkerKilled(p) \/ WorkerTerminated(p)

Fairness ==
    /\ \A c \in Calls : WF_vars(ParentStep(c))
    /\ \A p \in Ids : WF_vars(WorkerStep(p))

LiveSpec == Init /\ [][Next]_vars /\ Fairness

-----------------------------------------------------------------------------
(* LLMClient: the abort flag and the request id. *)

\* A comparison that takes every id for the current one.
AlwaysMatches(active, id) == TRUE

\* set_abort_flag: elif self.request_id == request_id.
Matches(active, id) == active = id

\* A lock that stays locked when the critical section is left.
KeepLocked(t) == t

\* The end of a with block releases the lock.
Release(t) == NoThread

\* A poll that never reports the flag.
NeverAborted == FALSE

\* get_abort_flag() returns the flag, whatever the request id is.
get_abort_flag == abort_flag

\* set_abort_flag(flag, id) up to its assignment: thread t takes abort_lock
\* and compares; ok tells whether the assignment is reached.  On a mismatch
\* the call returns False here.
SetAbortFlagCheck(t, id, ok) ==
    /\ abort_lock = NoThread
    /\ ok = (id = None \/ Matches(request_id, id))
    /\ abort_lock' = IF ok THEN t ELSE Release(t)
    /\ held_always' = held_always \cap {"abort_lock"}
    /\ UNCHANGED <<abort_flag, request_id, flag_by>>

\* set_abort_flag(flag, id) from its assignment on: the write, return True.
SetAbortFlagWrite(t, flag, id) ==
    /\ abort_lock = t
    /\ abort_flag' = flag
    /\ flag_by' = IF flag THEN flag_by \cup {id} ELSE {}
    /\ abort_lock' = Release(t)
    /\ held_always' = held_always \cap {"abort_lock"}
    /\ UNCHANGED request_id

\* generate(prompt, stream=True, request_id) is called, on a stream of n
\* chunks, and runs up to the return of self.set_request_id(request_id); the
\* history is copied under history_lock on the way.
GenStart(s, n) ==
    /\ gen[s].at = "idle"
    /\ history_lock = NoThread
    /\ request_lock = NoThread
    /\ request_id' = RequestId(s)
    /\ request_lock' = Release(Gen(s))
    /\ held_always' = held_always \cap {"request_lock"}
    /\ gen' = [gen EXCEPT ![s].at = "begin_clear", ![s].left = n,
                          ![s].request_id = RequestId(s)]
    /\ UNCHANGED <<abort_flag, chat_history, abort_lock, history_lock, aborter,
                   cleaner, flag_by>>
    /\ UNCHANGED <<exec_vars, gui_vars>>

\* self.set_abort_flag(False, request_id) at the start of the stream
BeginCheck(s) ==
    /\ gen[s].at = "begin_clear"
    /\ \E ok \in BOOLEAN :
        /\ SetAbortFlagCheck(Gen(s), RequestId(s), ok)
        /\ gen' = [gen EXCEPT ![s].at = IF ok THEN "begin_write" ELSE "wait_chunk"]
    /\ UNCHANGED <<chat_history, request_lock, history_lock, aborter, cleaner>>
    /\ UNCHANGED <<exec_vars, gui_vars>>

BeginWrite(s) ==
    /\ gen[s].at = "begin_write"
    /\ SetAbortFlagWrite(Gen(s), FALSE, RequestId(s))
    /\ gen' = [gen EXCEPT ![s].at = "wait_chunk"]
    /\ UNCHANGED <<chat_history, request_lock, history_lock, aborter, cleaner>>
    /\ UNCHANGED <<exec_vars, gui_vars>>

\* for chunk in self.llm.stream(messages): upstream delivers a chunk.
Chunk(s) ==
    /\ gen[s].at = "wait_chunk"
    /\ gen[s].left > 0
    /\ gen' = [gen EXCEPT ![s].at = "poll", ![s].left = @ - 1]
    /\ UNCHANGED <<abort_flag, request_id, chat_history, abort_lock, request_lock,
                   history_lock, aborter, cleaner, flag_by, held_always>>
    /\ UNCHANGED <<exec_vars, gui_vars>>

\* A test that appends whatever text was accumulated.
SaveAnyText(is_completed, full_response) == full_response

\* if is_completed and full_response (line 237)
SaveCondition(is_completed, full_response) == is_completed /\ full_response

\* The inner finally (lines 235-239) of session s: the history after it.
InnerFinally(s, is_completed) ==
    IF SaveCondition(is_completed, gen[s].full_response)
    THEN Append(chat_history, s)
    ELSE chat_history

\* The stream is exhausted: the else branch of the for loop.
Exhausted(s) ==
    /\ gen[s].at = "wait_chunk"
    /\ gen[s].left = 0
    /\ gen' = [gen EXCEPT ![s].at = "save", ![s].outcome = "Completed"]
    /\ UNCHANGED <<abort_flag, request_id, chat_history, abort_lock, request_lock,
                   history_lock, aborter, cleaner, flag_by, held_always>>
    /\ UNCHANGED <<exec_vars, gui_vars>>

\* The stream raises: the inner finally runs with is_completed False, then
\* the handler yields the error text.
StreamRaises(s) ==
    /\ gen[s].at = "wait_chunk"
    /\ chat_history' = InnerFinally(s, FALSE)
    /\ gen' = [gen EXCEPT ![s].at = "err_msg", ![s].left = 0,
                          ![s].outcome = "Errored"]
    /\ UNCHANGED <<abort_flag, request_id, abort_lock, request_lock,
                   history_lock, aborter, cleaner, flag_by, held_always>>
    /\ UNCHANGED <<exec_vars, gui_vars>>

\* if request_id and self.get_abort_flag(): yield the notice and break;
\* otherwise go on to the content of the chunk, which is empty (e) or not.
\* Without a request id the `and` does not call get_abort_flag().
Poll(s, e) ==
    /\ gen[s].at = "poll"
    /\ LET polls == gen[s].request_id # None
           stop == polls /\ get_abort_flag
       IN  /\ polls => abort_lock = NoThread
           /\ abort_lock' = IF polls THEN Release(Gen(s)) ELSE abort_lock
           /\ held_always' = IF polls THEN held_always \cap {"abort_lock"}
                             ELSE held_always
           /\ gen' = [gen EXCEPT
                   ![s].at = IF stop THEN "abort_msg"
                             ELSE IF e THEN "wait_chunk" ELSE "emit",
                   ![s].left = IF stop THEN 0 ELSE @,
                   ![s].outcome = IF stop THEN "Aborted" ELSE @]
    /\ UNCHANGED <<abort_flag, request_id, chat_history, request_lock, history_lock,
                   aborter, cleaner, flag_by>>
    /\ UNCHANGED <<exec_vars, gui_vars>>

\* full_response += chunk.content; yield chunk.content
Emit(s) ==
    /\ gen[s].at = "emit"
    /\ gen' = [gen EXCEPT
            ![s].at = "yielded",
            ![s].full_response = TRUE,
            ![s].after = IF gen[s].abort_ok # "no" /\ @ < MaxChunks THEN @ + 1 ELSE @]
    /\ UNCHANGED <<abort_flag, request_id, chat_history, abort_lock, request_lock,
                   history_lock, aborter, cleaner, flag_by, held_always>>
    /\ UNCHANGED <<exec_vars, gui_vars>>

\* The consumer asks for the next item: the generator resumes after its yield.
\* After the notice it breaks out of the loop, through the inner finally with
\* is_completed False; after the error text it leaves the handler.
Resume(s) ==
    /\ gen[s].at \in {"yielded", "abort_msg", "err_msg"}
    /\ chat_history' = IF gen[s].at = "abort_msg" THEN InnerFinally(s, FALSE)
                       ELSE chat_history
    /\ gen' = [gen EXCEPT ![s].at = IF @ = "yielded" THEN "wait_chunk" ELSE "end",
                          ![s].full_response = IF gen[s].at = "yielded" THEN @ ELSE FALSE]
    /\ UNCHANGED <<abort_flag, request_id, abort_lock, request_lock,
                   history_lock, aborter, cleaner, flag_by, held_always>>
    /\ UNCHANGED <<exec_vars, gui_vars>>

\* The loop completed: the inner finally with is_completed True.
Save(s) ==
    /\ gen[s].at = "save"
    /\ history_lock = NoThread
    /\ chat_history' = InnerFinally(s, TRUE)
    /\ gen' = [gen EXCEPT ![s].at = "end", ![s].full_response = FALSE]
    /\ UNCHANGED <<abort_flag, request_id, abort_lock, request_lock, history_lock,
                   aborter, cleaner, flag_by, held_always>>
    /\ UNCHANGED <<exec_vars, gui_vars>>

\* An outer finally that never calls set_abort_flag.
NeverResets(id) == FALSE

\* finally: if stream and request_id (line 249), in a streaming call.
FinallyResets(id) == id # None

\* The frame once generate() is left: the outcome is all that is kept.
Left(g) == [NewGen EXCEPT !.at = "done", !.outcome = g.outcome]

\* finally: if stream and request_id: self.set_abort_flag(False, request_id)
EndCheck(s) ==
    /\ gen[s].at = "end"
    /\ IF FinallyResets(gen[s].request_id)
       THEN \E ok \in BOOLEAN :
               /\ SetAbortFlagCheck(Gen(s), gen[s].request_id, ok)
               /\ gen' = [gen EXCEPT ![s] = IF ok THEN [@ EXCEPT !.at = "end_write"]
                                            ELSE Left(@)]
       ELSE /\ gen' = [gen EXCEPT ![s] = Left(@)]
            /\ UNCHANGED <<abort_flag, request_id, abort_lock, flag_by, held_always>>
    /\ UNCHANGED <<chat_history, request_lock, history_lock, aborter, cleaner>>
    /\ UNCHANGED <<exec_vars, gui_vars>>

EndWrite(s) ==
    /\ gen[s].at = "end_write"
    /\ SetAbortFlagWrite(Gen(s), FALSE, RequestId(s))
    /\ gen' = [gen EXCEPT ![s] = Left(@)]
    /\ UNCHANGED <<chat_history, request_lock, history_lock, aborter, cleaner>>
    /\ UNCHANGED <<exec_vars, gui_vars>>

\* The arguments another thread passes to set_abort_flag(True, id).
AbortArgs == {RequestId(s) : s \in Sessions} \cup {UnknownId, None}

\* Another thread calls set_abort_flag(True, id).
AbortCall(id) ==
    /\ aborter.at = "idle"
    /\ \E ok \in BOOLEAN :
        /\ SetAbortFlagCheck(AbortThread, id, ok)
        /\ aborter' = [at |-> IF ok THEN "write" ELSE "idle", arg |-> id,
                       result |-> IF ok THEN "none" ELSE "false"]
    /\ UNCHANGED <<chat_history, request_lock, history_lock, gen, cleaner>>
    /\ UNCHANGED <<exec_vars, gui_vars>>

\* The phase of session s, for abort_ok.
Phase(s) ==
    IF gen[s].at = "begin_clear" THEN "begin"
    ELSE IF gen[s].at \in LoopPcs THEN "loop" ELSE "no"

AbortWrite ==
    /\ aborter.at = "write"
    /\ SetAbortFlagWrite(AbortThread, TRUE, aborter.arg)
    /\ aborter' = [aborter EXCEPT !.at = "idle", !.result = "true"]
    /\ gen' = [s \in Sessions |->
                IF RequestId(s) = aborter.arg /\ gen[s].abort_ok = "no"
                THEN [gen[s] EXCEPT !.abort_ok = Phase(s)]
                ELSE gen[s]]
    /\ UNCHANGED <<chat_history, request_lock, history_lock, cleaner>>
    /\ UNCHANGED <<exec_vars, gui_vars>>

\* cleanup(): self.set_abort_flag(True)
CleanupCall ==
    /\ cleaner = "idle"
    /\ SetAbortFlagCheck(CleanupThread, None, TRUE)
    /\ cleaner' = "set_abort_flag"
    /\ UNCHANGED <<chat_history, request_lock, history_lock, gen, aborter>>
    /\ UNCHANGED <<exec_vars, gui_vars>>

CleanupWrite ==
    /\ cleaner = "set_abort_flag"
    /\ SetAbortFlagWrite(CleanupThread, TRUE, None)
    /\ cleaner' = "clear_chat_history"
    /\ UNCHANGED <<chat_history, request_lock, history_lock, gen, aborter>>
    /\ UNCHANGED <<exec_vars, gui_vars>>

\* cleanup(): self.clear_chat_history()
CleanupHistory ==
    /\ cleaner = "clear_chat_history"
    /\ history_lock = NoThread
    /\ chat_history' = <<>>
    /\ cleaner' = "reset_request_id"
    /\ UNCHANGED <<abort_flag, request_id, abort_lock, request_lock, history_lock,
                   gen, aborter, flag_by, held_always>>
    /\ UNCHANGED <<exec_vars, gui_vars>>

\* cleanup(): with self.request_lock: self.request_id = None
CleanupReset ==
    /\ cleaner = "reset_request_id"
    /\ request_lock = NoThread
    /\ request_id' = None
    /\ request_lock' = Release(CleanupThread)
    /\ held_always' = held_always \cap {"request_lock"}
    /\ cleaner' = "idle"
    /\ UNCHANGED <<abort_flag, chat_history, abort_lock, history_lock, gen, aborter,
                   flag_by>>
    /\ UNCHANGED <<exec_vars, gui_vars>>

\* Every interleaving of the sessions and the two other threads.
AbortNext ==
    \/ \E s \in Sessions, n \in 0..MaxChunks : GenStart(s, n)
    \/ \E s \in Sessions : BeginCheck(s)
    \/ \E s \in Sessions : BeginWrite(s)
    \/ \E s \in Sessions : Chunk(s)
    \/ \E s \in Sessions : Exhausted(s)
    \/ \E s \in Sessions : StreamRaises(s)
    \/ \E s \in Sessions, e \in BOOLEAN : Poll(s, e)
    \/ \E s \in Sessions : Emit(s)
    \/ \E s \in Sessions : Resume(s)
    \/ \E s \in Sessions : Save(s)
    \/ \E s \in Sessions : EndCheck(s)
    \/ \E s \in Sessions : EndWrite(s)
    \/ \E id \in AbortArgs : AbortCall(id)
    \/ AbortWrite
    \/ CleanupCall
    \/ CleanupWrite
    \/ CleanupHistory
    \/ CleanupReset

AbortSpec == Init /\ [][AbortNext]_vars

\* Sequential use: generate() is called only when every earlier call has
\* run to its end.
SeqGenStart(s, n) ==
    /\ \A r \in Sessions : gen[r].at \in {"idle", "done"}
    /\ GenStart(s, n)

SeqNext ==
    \/ \E s \in Sessions, n \in 0..MaxChunks : SeqGenStart(s, n)
    \/ \E s \in Sessions : BeginCheck(s)
    \/ \E s \in Sessions : BeginWrite(s)
    \/ \E s \in Sessions : Chunk(s)
    \/ \E s \in Sessions : Exhausted(s)
    \/ \E s \in Sessions : StreamRaises(s)
    \/ \E s \in Sessions, e \in BOOLEAN : Poll(s, e)
    \/ \E s \in Sessions : Emit(s)
    \/ \E s \in Sessions : Resume(s)
    \/ \E s \in Sessions : Save(s)
    \/ \E s \in Sessions : EndCheck(s)
    \/ \E s \in Sessions : EndWrite(s)
    \/ \E id \in AbortArgs : AbortCall(id)
    \/ AbortWrite
    \/ CleanupCall
    \/ CleanupWrite
    \/ CleanupHistory
    \/ CleanupReset

SeqSpec == Init /\ [][SeqNext]_vars

\* generate(prompt, stream=True) without a request id, on a stream of n
\* chunks: `if request_id:` (line 212) skips set_request_id and the reset of
\* the flag, and the call goes on to the loop.
GenStartNoId(s, n) ==
    /\ gen[s].at = "idle"
    /\ history_lock = NoThread
    /\ gen' = [gen EXCEPT ![s].at = "wait_chunk", ![s].left = n]
    /\ UNCHANGED <<abort_flag, request_id, chat_history, abort_lock, request_lock,
                   history_lock, aborter, cleaner, flag_by, held_always>>
    /\ UNCHANGED <<exec_vars, gui_vars>>

\* Sequential use, by callers that pass a request id and callers that do not.
OptIdNext ==
    \/ SeqNext
    \/ \E s \in Sessions, n \in 0..MaxChunks :
          (\A r \in Sessions : gen[r].at \in {"idle", "done"}) /\ GenStartNoId(s, n)

OptIdSpec == Init /\ [][OptIdNext]_vars

-----------------------------------------------------------------------------
(* PythonEducationSystemGradio: the task lock of the GUI. *)

\* A request reaches handle_chat (ChatTask) or execute_code (CodeTask); the
\* body of handle_chat starts at the first next() of the generator.
Request(t, name) ==
    /\ gui[t].at = "idle"
    /\ gui' = [gui EXCEPT ![t].at = "acquire", ![t].task_name = name]
    /\ UNCHANGED <<task_lock, current_task, task_start_time>>
    /\ UNCHANGED <<exec_vars, llm_vars>>

\* acquire_task_lock, line 63: self.task_lock.acquire(blocking=False)
TryAcquire(t) ==
    /\ gui[t].at = "acquire"
    /\ IF task_lock = Unlocked
       THEN /\ task_lock' = t
            /\ gui' = [gui EXCEPT ![t].at = "set_current_task"]
       ELSE /\ gui' = [gui EXCEPT ![t].at = "busy_test"]
            /\ UNCHANGED task_lock
    /\ UNCHANGED <<current_task, task_start_time>>
    /\ UNCHANGED <<exec_vars, llm_vars>>

\* Line 64: the condition `if self.task_start_time` of the conditional
\* expression; elapsed_time is 0 when it is None.
BusyTest(t) ==
    /\ gui[t].at = "busy_test"
    /\ gui' = [gui EXCEPT ![t].at = IF task_start_time # None THEN "busy_subtract"
                                    ELSE "busy_message"]
    /\ UNCHANGED <<task_lock, current_task, task_start_time>>
    /\ UNCHANGED <<exec_vars, llm_vars>>

\* Line 64: time.time() - self.task_start_time, a second read of the
\* attribute; float - None raises TypeError, which leaves the handler.
BusySubtract(t) ==
    /\ gui[t].at = "busy_subtract"
    /\ gui' = [gui EXCEPT ![t].at = IF task_start_time = None THEN "raised"
                                    ELSE "busy_message",
                          ![t].exit = IF task_start_time = None THEN "TypeError" ELSE @]
    /\ UNCHANGED <<task_lock, current_task, task_start_time>>
    /\ UNCHANGED <<exec_vars, llm_vars>>

\* Line 65: the f-string reads self.current_task; (False, text) is returned
\* and the handler returns the text (lines 113-115, 233-235).
BusyMessage(t) ==
    /\ gui[t].at = "busy_message"
    /\ gui' = [gui EXCEPT ![t].at = "rejected", ![t].message = <<current_task>>,
                          ![t].exit = "busy"]
    /\ UNCHANGED <<task_lock, current_task, task_start_time>>
    /\ UNCHANGED <<exec_vars, llm_vars>>

\* Line 67: self.current_task = task_name
SetCurrentTask(t) ==
    /\ gui[t].at = "set_current_task"
    /\ current_task' = gui[t].task_name
    /\ gui' = [gui EXCEPT ![t].at = "set_start_time"]
    /\ UNCHANGED <<task_lock, task_start_time>>
    /\ UNCHANGED <<exec_vars, llm_vars>>

\* Lines 68-69: self.task_start_time = time.time(); return True, ""
SetStartTime(t) ==
    /\ gui[t].at = "set_start_time"
    /\ task_start_time' = Time(t)
    /\ gui' = [gui EXCEPT ![t].at = "running"]
    /\ UNCHANGED <<task_lock, current_task>>
    /\ UNCHANGED <<exec_vars, llm_vars>>

\* handle_chat yields to its consumer inside the try block.
YieldHistory(t) ==
    /\ gui[t].at = "running"
    /\ gui[t].task_name = ChatTask
    /\ gui' = [gui EXCEPT ![t].at = "suspended"]
    /\ UNCHANGED <<task_lock, current_task, task_start_time>>
    /\ UNCHANGED <<exec_vars, llm_vars>>

\* The consumer asks for the next item (how = "next") or closes the
\* generator (how = "close": GeneratorExit at the yield, on to the finally).
ConsumerResumes(t, how) ==
    /\ gui[t].at = "suspended"
    /\ gui' = [gui EXCEPT ![t].at = IF how = "next" THEN "running" ELSE "release",
                          ![t].exit = IF how = "next" THEN @ ELSE "closed"]
    /\ UNCHANGED <<task_lock, current_task, task_start_time>>
    /\ UNCHANGED <<exec_vars, llm_vars>>

\* The try block is left by a return or by an exception: on to the finally
\* (lines 225-227, 274-276).
LeaveBody(t, how) ==
    /\ gui[t].at = "running"
    /\ gui' = [gui EXCEPT ![t].at = "release", ![t].exit = how]
    /\ UNCHANGED <<task_lock, current_task, task_start_time>>
    /\ UNCHANGED <<exec_vars, llm_vars>>

\* release_task_lock, line 73: self.task_lock.release()
ReleaseLock(t) ==
    /\ gui[t].at = "release"
    /\ task_lock' = Unlocked
    /\ gui' = [gui EXCEPT ![t].at = "clear_current_task"]
    /\ UNCHANGED <<current_task, task_start_time>>
    /\ UNCHANGED <<exec_vars, llm_vars>>

\* Line 74: self.current_task = None
ClearCurrentTask(t) ==
    /\ gui[t].at = "clear_current_task"
    /\ current_task' = None
    /\ gui' = [gui EXCEPT ![t].at = "clear_start_time"]
    /\ UNCHANGED <<task_lock, task_start_time>>
    /\ UNCHANGED <<exec_vars, llm_vars>>

\* Line 75: self.task_start_time = None, and the handler is left.
ClearStartTime(t) ==
    /\ gui[t].at = "clear_start_time"
    /\ task_start_time' = None
    /\ gui' = [gui EXCEPT ![t].at = "done"]
    /\ UNCHANGED <<task_lock, current_task>>
    /\ UNCHANGED <<exec_vars, llm_vars>>

GuiNext ==
    \/ \E t \in Tasks, name \in {ChatTask, CodeTask} : Request(t, name)
    \/ \E t \in Tasks : TryAcquire(t)
    \/ \E t \in Tasks : BusyTest(t)
    \/ \E t \in Tasks : BusySubtract(t)
    \/ \E t \in Tasks : BusyMessage(t)
    \/ \E t \in Tasks : SetCurrentTask(t)
    \/ \E t \in Tasks : SetStartTime(t)
    \/ \E t \in Tasks : YieldHistory(t)
    \/ \E t \in Tasks, how \in {"next", "close"} : ConsumerResumes(t, how)
    \/ \E t \in Tasks, how \in {"return", "raise"} : LeaveBody(t, how)
    \/ \E t \in Tasks : ReleaseLock(t)
    \/ \E t \in Tasks : ClearCurrentTask(t)
    \/ \E t \in Tasks : ClearStartTime(t)

GuiSpec == Init /\ [][GuiNext]_vars

-----------------------------------------------------------------------------
(* Vocabulary of the properties. *)

\* The worker process a call started, if any.
Started(c) == process[c] # 0 /\ procs[process[c]].st \notin {"free", "initial"}

\* execute() has returned on one of its paths outside the except handler.
ReturnedNormally(c) == pc[c] = "returned" /\ via[c] # "except"

\* Some denylist entry occurs somewhere in the text.
HasDenylistedToken(text) ==
    \E k \in 1..Len(disallowed_functions) :
        \E i \in 1..Len(text) :
            /\ i + Len(disallowed_functions[k]) - 1 <= Len(text)
            /\ SubSeq(text, i, i + Len(disallowed_functions[k]) - 1) = disallowed_functions[k]

\* The submitted texts that contain a denylisted token.
DenylistedSources == {s.src : s \in {t \in Submissions : HasDenylistedToken(t.src)}}

\* The worker's user code finished and its result was put on the queue
\* before the call's join(self.timeout) timed out.
SentInTime(c) == process[c] # 0 /\ procs[process[c]].put_in_time

-----------------------------------------------------------------------------
(* C1.  Every exit path of execute, including an exception raised in the   *)
(* parent after the worker was started, terminates and reaps the worker    *)
(* before execute returns: no started worker is unreaped once its call has *)
(* returned.                                                               *)
C1_WorkerReapedOnEveryExit ==
    \A c \in Calls :
        (pc[c] \in {"returned", "raised"} /\ Started(c))
            => procs[process[c]].st = "reaped"

(* C2.  On the two non-exceptional paths (worker exited; deadline elapsed  *)
(* with the worker alive) the outcome is returned only after the worker is *)
(* no longer alive and has been waited for; on the deadline path the       *)
(* worker has been sent SIGTERM before the final join, and the dict        *)
(* returned after that join is the timeout dict.                           *)
C2_OutcomeOnlyAfterReap ==
    \A c \in Calls :
        /\ (ReturnedNormally(c) /\ via[c] \in {"timeout", "result", "noresult"})
               => /\ procs[process[c]].st = "reaped"
                  /\ ~is_alive(process[c])
        /\ pc[c] = "join_terminated"
               => procs[process[c]].st \in {"terminating", "zombie"}
        /\ (pc[c] = "returned" /\ via[c] = "timeout")
               => ret[c] = TimeoutOutcome /\ expired[c]

C2_Witness ==
    \E c \in Calls :
        /\ pc[c] = "returned" /\ via[c] = "timeout"
        /\ procs[process[c]].st = "reaped"
        /\ \E d \in Calls : pc[d] = "returned" /\ via[d] = "result"

(* C3.  For a source text that contains a denylisted token anywhere, also  *)
(* in a comment or a string literal, execute returns the Unsafe dict       *)
(* carrying the rejection reason (a denylisted token of the text), and no  *)
(* worker process and no result queue is ever created for that call.       *)
C3_UnsafeSpawnsNothing ==
    \A c \in Calls :
        (pc[c] \notin {"idle", "check_safety"} /\ code[c] \in DenylistedSources)
            => /\ pc[c] = "returned"
               /\ ret[c].output = <<>>
               /\ \E k \in 1..Len(disallowed_functions) :
                     /\ In(disallowed_functions[k], code[c])
                     /\ ret[c].error =
                            UnsafePrefix \o DisallowedPrefix \o disallowed_functions[k]
               /\ process[c] = 0 /\ result_queue[c] = 0
               /\ \A p \in Ids : procs[p].call # c
               /\ \A q \in Ids : queues[q].call # c

C3_Witness ==
    /\ \E c \in Calls : pc[c] = "returned" /\ code[c] = SrcComment
    /\ \E c \in Calls : pc[c] = "returned" /\ code[c] = SrcTwo

(* C4.  Whenever the worker has produced and sent its result before the    *)
(* deadline elapses, execute returns that worker's result and never the    *)
(* timeout dict, for every result size.                                    *)
C4_SentResultIsReturned ==
    \A c \in Calls :
        (ReturnedNormally(c) /\ SentInTime(c))
            => /\ via[c] = "result"
               /\ got[c] = process[c]
               /\ ret[c] = SandboxResult(code[c])

C6_NoCrossTalk ==
    /\ \A q \in Ids :
          \A i \in 1..Len(queues[q].items) :
              procs[queues[q].items[i].origin].call = queues[q].call
    /\ \A c \in Calls :
          /\ got[c] # 0 => got[c] = process[c]
          /\ via[c] = "result"
                => /\ got[c] = process[c]
                   /\ ret[c] = SandboxResult(code[c])

C6_Witness ==
    /\ via[1] = "result" /\ via[2] = "result"
    /\ code[1] # code[2]
    /\ process[2] < process[1]

(* C7.  If the user code raises an exception inside the worker, the        *)
(* returned outcome's error is populated from the failure text and is      *)
(* non-empty, so a crash is never reported as a clean completion.          *)
C7_CrashHasErrorText ==
    \A c \in Calls :
        (via[c] = "result" /\ Exec(code[c]).kind = "raise")
            => /\ ret[c].error = Exec(code[c]).exc
               /\ ret[c].error # <<>>

(* C8.  For a submission that passes the safety check, prints text (and    *)
(* writes nothing to stderr) and finishes within the deadline, execute     *)
(* returns stdout equal to exactly the text printed (each print argument   *)
(* followed by a newline) and an empty error.                              *)
C8_PrintedTextIsReturned ==
    \A c \in Calls :
        (/\ ReturnedNormally(c)
         /\ SentInTime(c)
         /\ Exec(code[c]).kind = "return"
         /\ Exec(code[c]).prints # <<>>
         /\ Exec(code[c]).err = <<>>)
            => /\ ret[c].output = print_all(<<>>, Exec(code[c]).prints)
               /\ ret[c].error = <<>>

(* C9.  execute produces exactly one structured outcome per call on every  *)
(* path and never propagates an exception to its caller.                   *)
C9_AlwaysOneOutcome ==
    \A c \in Calls :
        /\ pc[c] # "raised"
        /\ pc[c] = "returned" <=> ret[c] # NoOutcome
        /\ pc[c] = "returned" <=> via[c] # "none"

(* C10.  Each in-flight call owns at most one worker process, and every    *)
(* call that passes the safety check creates a fresh worker and a fresh    *)
(* result queue: no two calls ever hold the same worker or queue.          *)
C10_FreshWorkerPerCall ==
    /\ \A c \in Calls :
          /\ Cardinality({p \in Ids : procs[p].st # "free" /\ procs[p].call = c}) <= 1
          /\ Cardinality({q \in Ids : queues[q].allocated /\ queues[q].call = c}) <= 1
          /\ (pc[c] \in TryPcs \/ (pc[c] = "returned" /\ via[c] # "unsafe"))
                => /\ process[c] # 0 /\ result_queue[c] # 0
                   /\ procs[process[c]].call = c
                   /\ queues[result_queue[c]].call = c
                   /\ procs[process[c]].queue = result_queue[c]
    /\ \A c \in Calls, d \in Calls :
          (c # d /\ process[c] # 0 /\ process[d] # 0)
              => /\ process[c] # process[d]
                 /\ result_queue[c] # result_queue[d]

C10_Witness ==
    /\ pc[1] = "returned" /\ Started(1)
    /\ pc[2] = "join" /\ Started(2)
    /\ process[1] # process[2]

-----------------------------------------------------------------------------
(* Properties of the abort flag and the request id. *)

\* The request ids of the other sessions.
Others(s) == {RequestId(r) : r \in Sessions \ {s}}

\* The poll of session s returns True in this step.
PollsTrue(s) == (\E e \in BOOLEAN : Poll(s, e)) /\ gen'[s].outcome = "Aborted"

(* C11.  A poll on behalf of a session returns True only while that        *)
(* session's id is the current request id, and never because of an abort   *)
(* that named another session.                                             *)
C11_PollOnlyForOwnId ==
    [][\A s \in Sessions :
          PollsTrue(s) => /\ request_id = RequestId(s)
                          /\ flag_by \cap Others(s) = {}]_vars

\* Session s has made its id the current one and has not yet cleared the flag.
InBegin(s) == gen[s].at \in {"begin_clear", "begin_write"} /\ request_id = RequestId(s)

(* C12.  The start of a stream records the request id and clears the flag  *)
(* in one indivisible step: the new id is never current together with a    *)
(* flag that is still set, so an abort of that id that returned True is    *)
(* never erased by the start it raced with.                                *)
C12_BeginIsAtomic ==
    \A s \in Sessions : InBegin(s) => ~abort_flag

\* The reply of session s is in the chat history.
InHistory(s) == \E i \in 1..Len(chat_history) : chat_history[i] = s

(* C13, as claimed.  When set_abort_flag(True, id) returned True for a     *)
(* session that was in its loop, the session ends Aborted.                 *)
C13_AbortEndsAborted ==
    \A s \in Sessions :
        (gen[s].abort_ok = "loop" /\ gen[s].outcome # "none")
            => gen[s].outcome = "Aborted"

(* C13, amended.  In sequential use, once set_abort_flag(True, id) has     *)
(* returned True for a session in its loop, the flag stays set while the   *)
(* session is in the loop; the next poll, if upstream delivers another     *)
(* chunk, returns True and the session ends Aborted, and an aborted        *)
(* session's reply is not appended to the chat history.                    *)
C13_NextPollAborts ==
    /\ [](\A s \in Sessions :
            /\ (gen[s].abort_ok = "loop" /\ gen[s].at \in LoopPcs) => abort_flag
            /\ gen[s].outcome = "Aborted" => ~InHistory(s))
    /\ [][\A s \in Sessions :
            (gen[s].abort_ok = "loop" /\ \E e \in BOOLEAN : Poll(s, e))
                => gen'[s].at = "abort_msg" /\ gen'[s].outcome = "Aborted"]_vars

C13_Witness ==
    \E s \in Sessions :
        /\ gen[s].abort_ok = "loop"
        /\ gen[s].at = "abort_msg"
        /\ gen[s].outcome = "Aborted"
        /\ aborter.result = "true" /\ aborter.arg = RequestId(s)

(* C14.  set_abort_flag(True, id) with an id that is not the current       *)
(* request id returns False and changes neither the request id nor the     *)
(* flag: an abort of an unknown id while a session is streaming leaves     *)
(* that session's poll False.                                              *)
C14_ForeignAbortIsNoOp ==
    [][\A id \in AbortArgs :
          (id # None /\ id # request_id /\ aborter'.arg = id /\ AbortCall(id))
              => /\ aborter'.at = "idle"
                 /\ aborter'.result = "false"
                 /\ abort_flag' = abort_flag
                 /\ request_id' = request_id
                 /\ get_abort_flag' = get_abort_flag]_vars

C14_Witness ==
    \E s \in Sessions :
        /\ gen[s].at \in LoopPcs
        /\ request_id = RequestId(s)
        /\ aborter = [at |-> "idle", arg |-> UnknownId, result |-> "false"]
        /\ ~get_abort_flag

\* Session s leaves generate() in this step.
Leaves(s) == (EndCheck(s) \/ EndWrite(s)) /\ gen'[s].at = "done"

(* C15.  When a session has reached its outcome and run the final          *)
(* set_abort_flag(False, id), the registry is idle again: no current       *)
(* request id, and the flag False.                                         *)
C15_EndLeavesIdle ==
    [][\A s \in Sessions :
          Leaves(s) => request_id' = None /\ abort_flag' = FALSE]_vars

\* The session that id names has left generate(), or no session is running.
Late(id) ==
    \/ \E s \in Sessions : RequestId(s) = id /\ gen[s].at = "done"
    \/ \A s \in Sessions : gen[s].at \in {"idle", "done"}

(* C16.  set_abort_flag(True, id) called after the session of that id has  *)
(* ended, or while no session is running, returns False and does not set   *)
(* the flag.                                                               *)
C16_LateAbortIsNoOp ==
    [][\A id \in AbortArgs :
          (id # None /\ Late(id) /\ aborter'.arg = id /\ AbortCall(id))
              => /\ aborter'.at = "idle"
                 /\ aborter'.result = "false"
                 /\ abort_flag' = abort_flag]_vars

(* C17.  After set_abort_flag(True, id) has returned True for the session  *)
(* whose id is the current request id, that session yields at most one     *)
(* further content unit.                                                   *)
C17_OneUnitLatency ==
    \A s \in Sessions : gen[s].after <= 1

(* C18.  In sequential use a poll never returns True on account of aborts  *)
(* that named other sessions only: a cancellation requested for an         *)
(* earlier session, even after it ended, is not observed by a later one.   *)
C18_NoStaleCancellation ==
    [][\A s \in Sessions :
          PollsTrue(s) => ~(flag_by # {} /\ flag_by \subseteq Others(s))]_vars

(* C19.  One and the same lock is held at every read and every write of    *)
(* the request id and of the abort flag.                                   *)
C19_SingleMutex ==
    held_always # {}

\* Thread t holds one of the locks.
Holds(t) == abort_lock = t \/ request_lock = t \/ history_lock = t

\* The generator is suspended at a yield, or waits for upstream, or is not running.
Blocked(s) == gen[s].at \in {"idle", "wait_chunk", "yielded", "abort_msg", "err_msg", "done"}

Active(s) == gen[s].at \notin {"idle", "done"}

\* Session a is running and another id has replaced its id as the current one.
Replaced(a) == Active(a) /\ request_id # RequestId(a)

(* C21.  Once another session's start has replaced the id of a running     *)
(* session a, the id of a never becomes current again, and every later     *)
(* set_abort_flag(True, a) returns False and leaves the flag, hence the    *)
(* polls of a, as they were.                                               *)
C21_ReplacedCannotBeAborted ==
    [][\A a \in Sessions :
          Replaced(a) =>
              /\ request_id' # RequestId(a)
              /\ (aborter'.arg = RequestId(a) /\ AbortCall(RequestId(a)))
                    => /\ aborter'.at = "idle"
                       /\ aborter'.result = "false"
                       /\ abort_flag' = abort_flag]_vars

C21_Witness ==
    \E a \in Sessions, b \in Sessions :
        /\ a # b
        /\ gen[a].at \in LoopPcs /\ gen[b].at \in LoopPcs
        /\ request_id = RequestId(b)
        /\ aborter = [at |-> "idle", arg |-> RequestId(a), result |-> "false"]
        /\ ~abort_flag

\* Session b made its id the current one after session a had made its own:
\* the start of b replaced the id of a, and nothing has replaced b's since.
ReplacedBy(a, b) ==
    /\ a # b
    /\ gen[a].at # "idle"
    /\ request_id = RequestId(b)

\* set_abort_flag(True, id) is called in this step and passes its comparison.
AbortPasses(id) ==
    /\ aborter'.arg = id
    /\ aborter'.at = "write"
    /\ AbortCall(id)

(* C22, as stated.  When session b runs with the id that replaced the id   *)
(* of session a, set_abort_flag(True, a) called from then on passes the    *)
(* comparison with the current id, so that it sets the flag b polls and    *)
(* an abort meant for the first session stops the second.                  *)
C22_AbortOfReplacedHitsReplacer ==
    [][\A a \in Sessions, b \in Sessions :
          (/\ ReplacedBy(a, b)
           /\ gen[b].at \in LoopPcs
           /\ aborter'.arg = RequestId(a)
           /\ AbortCall(RequestId(a)))
              => AbortPasses(RequestId(a))]_vars

(* C22, amended.  While the id of b is the current one after it replaced   *)
(* the id of a, no call of set_abort_flag(True, a) passes the comparison   *)
(* and no poll of b returns True on a flag that only aborts naming a have  *)
(* set.                                                                    *)
C22_ReplacerIsNotHit ==
    [][\A a \in Sessions, b \in Sessions :
          ReplacedBy(a, b) =>
              /\ ~AbortPasses(RequestId(a))
              /\ PollsTrue(b) => flag_by # {RequestId(a)}]_vars

C22_Witness ==
    \E a \in Sessions, b \in Sessions :
        /\ ReplacedBy(a, b)
        /\ gen[a].at \in LoopPcs
        /\ gen[b].at = "yielded"
        /\ gen[b].left = 0
        /\ aborter = [at |-> "idle", arg |-> RequestId(a), result |-> "false"]
        /\ ~abort_flag

(* C23.  When the submitted code prints and then raises, the outcome       *)
(* execute returns from the worker's result carries the text printed       *)
(* before the exception as its output, together with the failure text as   *)
(* its error.                                                              *)
C23_OutputSurvivesException ==
    \A c \in Calls :
        (/\ via[c] = "result"
         /\ Exec(code[c]).kind = "raise"
         /\ Exec(code[c]).prints # <<>>)
            => /\ ret[c].output = print_all(<<>>, Exec(code[c]).prints)
               /\ ret[c].error = Exec(code[c]).exc

\* Where the result messages of worker p are: in its feeder's buffer, on a
\* queue, or taken by the get() of a call.
Messages(p) ==
    {<<"buf", i>> : i \in {j \in 1..Len(procs[p].buf) : procs[p].buf[j].origin = p}}
        \cup {m \in Ids \X Ids :
                  /\ m[2] <= Len(queues[m[1]].items)
                  /\ queues[m[1]].items[m[2]].origin = p}
        \cup {<<"got", c>> : c \in {d \in Calls : got[d] = p}}

\* exec ends in this step of worker p, by returning or by raising.
ExecEnds(p) ==
    /\ procs[p].st = "running"
    /\ Exec(procs[p].code).kind \in {"return", "raise"}
    /\ procs'[p].st \notin {"running", "terminating"}

(* C25.  A worker whose exec returns or raises puts exactly one result     *)
(* message on the queue it was given: none exists before exec ends, the    *)
(* step that ends exec puts one, the worker's own exit delivers that one   *)
(* to its queue, and at no time are there two messages of one worker.      *)
C25_ExactlyOnePut ==
    [][\A p \in Ids :
          /\ Cardinality(Messages(p)') <= 1
          /\ procs'[p].st \in {"free", "initial", "running"} => Messages(p)' = {}
          /\ ExecEnds(p) =>
                /\ WorkerPut(p)
                /\ Messages(p)' = {<<"buf", 1>>}
                /\ procs'[p].buf[1].result = SandboxResult(procs[p].code)
          /\ WorkerExit(p) => Messages(p)' = {<<procs[p].queue, Len(queues'[procs[p].queue].items)>>}]_vars

C25_Witness ==
    \E p \in Ids, q \in Ids :
        /\ procs[p].st = "zombie"
        /\ Exec(procs[p].code).kind = "raise"
        /\ Messages(p) = {<<q, 1>>}
        /\ \E r \in Ids : r # p /\ procs[r].st = "flushing" /\ Exec(procs[r].code).kind = "return"

\* The entries of disallowed_functions that occur in code, by position.
MatchingEntries(src) ==
    {k \in 1..Len(disallowed_functions) : In(disallowed_functions[k], src)}

\* The first of a non-empty set of positions.
First(ks) == CHOOSE k \in ks : \A j \in ks : k <= j

\* The state of the executor other than the position and the result of call c.
ExecutorFrame(c) ==
    <<code, result_queue, process, got, expired, queues, procs,
      [d \in Calls \ {c} |-> <<pc[d], ret[d], via[d]>>]>>

(* C26.  The safety check of a call rejects the source exactly when some   *)
(* entry of disallowed_functions occurs in it as a substring, the reason   *)
(* names the first such entry in the order of the list, and the source is  *)
(* accepted otherwise; the check changes nothing of the executor but the   *)
(* position and the result of its own call; and two calls with the same    *)
(* source get the same verdict and the same reason.                        *)
C26_CheckIsFirstMatchAndPure ==
    [][\A c \in Calls :
          /\ CheckSafety(c) =>
                /\ LET ks == MatchingEntries(code[c])
                   IN  IF ks = {}
                       THEN /\ pc'[c] = "new_worker"
                            /\ ret'[c] = ret[c] /\ via'[c] = via[c]
                       ELSE /\ pc'[c] = "returned" /\ via'[c] = "unsafe"
                            /\ ret'[c].output = <<>>
                            /\ ret'[c].error = UnsafePrefix \o DisallowedPrefix
                                                  \o disallowed_functions[First(ks)]
                /\ ExecutorFrame(c)' = ExecutorFrame(c)
          /\ \A d \in Calls :
                (/\ code'[c] = code'[d]
                 /\ pc'[c] \notin {"idle", "check_safety"}
                 /\ pc'[d] \notin {"idle", "check_safety"})
                    => /\ (via'[c] = "unsafe") <=> (via'[d] = "unsafe")
                       /\ via'[c] = "unsafe" => ret'[c] = ret'[d]]_vars

C26_Witness ==
    /\ \E c \in Calls, d \in Calls :
          /\ c # d
          /\ code[c] = SrcTwo /\ code[d] = SrcTwo
          /\ via[c] = "unsafe" /\ via[d] = "unsafe"
          /\ ret[c] = ret[d]
          /\ ret[c].error = UnsafePrefix \o DisallowedPrefix \o <<"o","p","e","n">>

\* The registry: the flag, the current request id, and who set the flag.
Registry == <<abort_flag, request_id, flag_by>>

(* C29.  The final set_abort_flag(False, a) of a session whose id is not   *)
(* the current one returns without writing: the flag and the current id    *)
(* are what they were.  And while b's id is current after it replaced a's, *)
(* no step of session a clears a flag that an abort naming b has set.      *)
C29_ReplacedEndIsNoOp ==
    [][\A a \in Sessions :
          /\ (request_id # RequestId(a) /\ EndCheck(a))
                => /\ Registry' = Registry
                   /\ abort_lock' = NoThread
                   /\ gen'[a].at = "done"
          /\ \A b \in Sessions :
                (/\ ReplacedBy(a, b)
                 /\ abort_flag
                 /\ RequestId(b) \in flag_by
                 /\ gen'[a] # gen[a])
                    => Registry' = Registry]_vars

C29_Witness ==
    \E a \in Sessions, b \in Sessions :
        /\ ReplacedBy(a, b)
        /\ gen[a].at = "done"
        /\ gen[a].outcome = "Aborted"
        /\ gen[b].at = "poll"
        /\ abort_flag
        /\ flag_by = {RequestId(b)}

\* The threads that call into the LLMClient.
Threads == {Gen(s) : s \in Sessions} \cup {AbortThread, CleanupThread}

\* The locks of the LLMClient that thread t holds.
LocksHeldBy(t) ==
    {l \in {"abort_lock", "request_lock", "history_lock"} :
        t = (IF l = "abort_lock" THEN abort_lock
             ELSE IF l = "request_lock" THEN request_lock ELSE history_lock)}

\* Thread t is inside an operation of the LLMClient: it has entered it and
\* has not returned, and it is not waiting for upstream or for its consumer.
InOperation(t) ==
    \/ \E s \in Sessions :
          /\ t = Gen(s)
          /\ gen[s].at \in {"begin_clear", "begin_write", "poll", "emit", "save",
                            "end", "end_write"}
    \/ t = AbortThread /\ aborter.at = "write"
    \/ t = CleanupThread /\ cleaner # "idle"

\* The next statement of thread t inside its operation.
StepOf(t) ==
    \/ \E s \in Sessions :
          /\ t = Gen(s)
          /\ \/ BeginCheck(s) \/ BeginWrite(s)
             \/ \E e \in BOOLEAN : Poll(s, e)
             \/ Emit(s) \/ Save(s) \/ EndCheck(s) \/ EndWrite(s)
    \/ t = AbortThread /\ AbortWrite
    \/ t = CleanupThread /\ (CleanupWrite \/ CleanupHistory \/ CleanupReset)

(* C30.  No thread ever holds two of abort_lock, request_lock and          *)
(* history_lock; a thread that holds a lock can always take its next step; *)
(* and a thread inside an operation can take its next step unless the lock *)
(* it needs is held by a thread that can: no state has threads waiting for *)
(* each other.                                                             *)
C30_OneLockNoDeadlock ==
    \A t \in Threads :
        /\ Cardinality(LocksHeldBy(t)) <= 1
        /\ LocksHeldBy(t) # {} => InOperation(t)
        /\ InOperation(t) =>
              \/ ENABLED StepOf(t)
              \/ /\ LocksHeldBy(t) = {}
                 /\ \E u \in Threads \ {t} : LocksHeldBy(u) # {} /\ ENABLED StepOf(u)

C30_Witness ==
    /\ abort_lock = CleanupThread
    /\ aborter.at = "idle"
    /\ \E s \in Sessions, r \in Sessions :
          /\ gen[s].at = "poll" /\ ~ENABLED (\E e \in BOOLEAN : Poll(s, e))
          /\ gen[r].at = "end" /\ ~ENABLED EndCheck(r)

\* The replies of session s in the history.
RepliesOf(s) == {i \in 1..Len(chat_history) : chat_history[i] = s}

(* C27.  The reply of a streaming session is appended to the chat history  *)
(* only by the session whose loop ran to its normal end with some text     *)
(* accumulated, and then once; a session that was stopped by the flag or   *)
(* whose stream raised appends nothing, on any of its steps.               *)
C27_OnlyCompletedIsSaved ==
    [][\A s \in Sessions :
          /\ RepliesOf(s)' # {} /\ RepliesOf(s) = {}
                => /\ Save(s)
                   /\ gen[s].outcome = "Completed"
                   /\ gen[s].full_response
                   /\ chat_history' = Append(chat_history, s)
          /\ (Save(s) /\ ~gen[s].full_response) => chat_history' = chat_history
          /\ (gen[s].outcome \in {"Aborted", "Errored"} \/ gen'[s].outcome \in {"Aborted", "Errored"})
                => /\ RepliesOf(s)' = {}
                   /\ gen'[s] # gen[s] => chat_history' = chat_history
          /\ Cardinality(RepliesOf(s)') <= 1]_vars

C27_Witness ==
    \E s \in Sessions, r \in Sessions :
        /\ chat_history = <<s>>
        /\ gen[s].at = "done" /\ gen[s].outcome = "Completed"
        /\ gen[r].at = "done" /\ gen[r].outcome \in {"Aborted", "Errored"}

\* Session s moves from one statement of generate() to another in this step.
Moves(s) == gen'[s].at # gen[s].at

(* C24.  A streaming session that was called with a request id makes its   *)
(* final set_abort_flag(False, id) exactly once on each way out of the     *)
(* loop: after normal exhaustion, after an exception of the stream and     *)
(* after it saw the flag, the session goes to the outer finally, from      *)
(* there only into that call, and it is left only by that call: either by  *)
(* its assignment, which clears the flag, or by its comparison finding     *)
(* another id current, which changes nothing.  If its id is the current    *)
(* one at the comparison, the assignment follows.                          *)
C24_EndOnceOnEveryPath ==
    [][\A s \in Sessions :
          gen[s].request_id # None =>
              /\ (gen[s].at \in {"save", "abort_msg", "err_msg"} /\ Moves(s))
                    => gen'[s].at = "end" /\ gen'[s].outcome = gen[s].outcome
              /\ (gen[s].at = "end" /\ Moves(s))
                    => /\ EndCheck(s)
                       /\ gen[s].outcome \in {"Completed", "Errored", "Aborted"}
                       /\ IF request_id = RequestId(s)
                          THEN gen'[s].at = "end_write" /\ abort_lock' = Gen(s)
                          ELSE gen'[s].at = "done" /\ Registry' = Registry
              /\ (gen[s].at = "end_write" /\ Moves(s))
                    => /\ EndWrite(s)
                       /\ gen'[s].at = "done"
                       /\ ~abort_flag' /\ flag_by' = {}
              /\ gen'[s].at = "done" => gen[s].at \in {"end", "end_write"}
              /\ gen[s].at \in {"end", "end_write"} => gen[s].outcome # "none"]_vars

C24_Witness ==
    \E s \in Sessions, r \in Sessions :
        /\ s # r
        /\ gen[s].at = "done" /\ gen[s].outcome = "Aborted"
        /\ gen[r].at = "done" /\ gen[r].outcome = "Errored"
        /\ request_id = RequestId(r)
        /\ ~abort_flag

(* C28.  After set_abort_flag(True) without a request id, as cleanup()     *)
(* calls it, every streaming session in flight stops at its next poll,     *)
(* whether it was called with a request id or without: the poll made for   *)
(* a chunk while the flag so set is standing ends the session Aborted.     *)
C28_AbortAllStopsEverySession ==
    [][\A s \in Sessions :
          (/\ gen[s].at = "poll"
           /\ abort_flag
           /\ None \in flag_by
           /\ \E e \in BOOLEAN : Poll(s, e))
              => gen'[s].at = "abort_msg" /\ gen'[s].outcome = "Aborted"]_vars

\* The worker of call c exited while join(self.timeout) was waiting.
ExitedInTime(c) ==
    /\ process[c] # 0
    /\ procs[process[c]].st \in {"zombie", "reaped"}
    /\ ~expired[c]

(* C31.  When the worker of a call has exited before the timeout and its   *)
(* queue holds no message, execute does not wait at the read of the queue: *)
(* the read can always be taken, and it returns the dict with empty        *)
(* output and the 'no result obtained' text as the error.                  *)
C31_NoResultWithoutBlocking ==
    [][\A c \in Calls :
          /\ pc[c] = "read_result" => ENABLED ReadResult(c)
          /\ (/\ ExitedInTime(c)
              /\ queues[result_queue[c]].items = <<>>
              /\ ReadResult(c))
                => /\ pc'[c] = "returned"
                   /\ via'[c] = "noresult"
                   /\ ret'[c] = NoResultOutcome
                   /\ ret'[c].output = <<>>
                   /\ ret'[c].error = <<"no execution result obtained">>
                   /\ queues' = queues]_vars

C31_Witness ==
    \E c \in Calls :
        /\ pc[c] = "returned"
        /\ via[c] = "noresult"
        /\ ExitedInTime(c)
        /\ code[c] = SrcOom
        /\ ret[c] = NoResultOutcome

\* Request t is past a successful acquire_task_lock and has not released.
Holding(t) ==
    gui[t].at \in {"set_current_task", "set_start_time", "running", "suspended", "release"}

\* Request t found the lock taken and is on the rejecting branch.
Rejecting(t) == gui[t].at \in {"busy_test", "busy_subtract", "busy_message"}

\* What C32 says of the lock itself: one holder at a time, a request that
\* finds the lock taken neither waits for it nor takes or releases it, and
\* a holder leaves only through release_task_lock.
LockDiscipline ==
    /\ Cardinality({t \in Tasks : Holding(t)}) <= 1
    /\ \A t \in Tasks :
          /\ Holding(t) <=> task_lock = t
          /\ gui[t].at = "acquire" => ENABLED TryAcquire(t)
          /\ Rejecting(t) => task_lock # t
          /\ gui[t].exit \in {"busy", "TypeError"} => task_lock # t
          /\ gui[t].at = "release" => ENABLED ReleaseLock(t)
          /\ gui[t].at \in {"clear_current_task", "clear_start_time", "done"}
                => gui[t].exit \in {"return", "raise", "closed"}

(* C32.  At most one request is past acquire_task_lock at any time; a      *)
(* request that finds the lock held is rejected at once with the busy      *)
(* message, without waiting and without releasing the lock; and the holder *)
(* releases the lock on each of its ways out.                              *)
C32_OneTaskOthersGetBusyMessage ==
    /\ LockDiscipline
    /\ \A t \in Tasks :
          /\ gui[t].at # "raised"
          /\ Rejecting(t) => ENABLED (BusyTest(t) \/ BusySubtract(t) \/ BusyMessage(t))
          /\ gui[t].at = "rejected" => gui[t].message # None

InBody(t) == gui[t].at \in {"running", "suspended"}

(* C33. While a task runs its body, that is from the return of
   acquire_task_lock (line 69) to the call of release_task_lock in its
   finally, task_lock is held by it, and current_task and task_start_time are
   not None and are the name and the start time this task wrote at lines
   67-68, whatever another task's release_task_lock (lines 73-75) and
   acquire_task_lock do in between. *)
C33_HolderIsDescribed ==
    \A t \in Tasks :
        InBody(t) =>
            /\ task_lock = t
            /\ current_task # None
            /\ task_start_time # None
            /\ current_task = gui[t].task_name
            /\ task_start_time = Time(t)

-----------------------------------------------------------------------------
(* PythonEducationSystem.execute_code, the wrapper over CodeExecutor.execute
   (education_system.py, lines 121-136). *)

\* str(e) of the OSError multiprocessing.Queue() raises on line 112 of
\* execute when no file descriptor is left.
QueueErrorText == <<"[Errno 24] Too many open files">>

\* The wrapper with success taken from the error text: not the code.
SuccessIfNoError(result) ==
    [success |-> result.error = <<>>, output |-> result.output, error |-> result.error]

\* Lines 124-129: the dict built from the dict execute returned; the
\* "traceback" key is not copied.
WrapResult(result) ==
    [success |-> TRUE, output |-> result.output, error |-> result.error]

\* Lines 130-136: the dict built in the except handler.
WrapException(e) ==
    [success |-> FALSE, output |-> <<>>, error |-> e]

\* What execute_code returns for call c of execute, once that call has
\* returned a dict or raised.
execute_code(c) ==
    IF pc[c] = "returned" THEN WrapResult(ret[c]) ELSE WrapException(QueueErrorText)

Ended(c) == pc[c] \in {"returned", "raised"}

(* C34. For every call of execute that has ended, execute_code returns
   success = TRUE exactly when execute returned a dict, whichever return
   statement produced it (unsafe submission, timeout, empty queue, the
   worker's own dict, the except handler), and then output and error are
   that dict's output and error unchanged; it returns success = FALSE
   exactly when execute raised, with an empty output and the text of the
   exception as error. *)
C34_SuccessUnlessExecuteRaises ==
    \A c \in Calls :
        Ended(c) =>
            LET r == execute_code(c)
            IN  /\ r.success <=> pc[c] = "returned"
                /\ pc[c] = "returned" =>
                       /\ via[c] \in {"unsafe", "timeout", "noresult", "result", "except"}
                       /\ r.output = ret[c].output
                       /\ r.error = ret[c].error
                /\ pc[c] = "raised" => r.output = <<>> /\ r.error = QueueErrorText

\* One call ended by the timeout return with success = TRUE and the timeout
\* text as error, another raised and gave success = FALSE.
C34_Witness ==
    \E c, d \in Calls :
        /\ pc[c] = "returned" /\ via[c] = "timeout"
        /\ execute_code(c).success
        /\ execute_code(c).error = TimeoutOutcome.error
        /\ pc[d] = "raised"
        /\ ~execute_code(d).success

=============================================================================
